---- MODULE Spec2Model ----
(***************************************************************************)
(* Order lifecycle and rider assignment of the delivery API.                *)
(*                                                                         *)
(* The store holds three collections: Order, User (riders) and             *)
(* RiderLocation.  Every route handler is an async function: it runs       *)
(* synchronously between two awaits, and each await is one database        *)
(* command that the database executes atomically on one document.  A step  *)
(* of a handler is therefore "the awaited command executes, then the       *)
(* handler runs on to its next await (or to its response)".  Handlers of   *)
(* different requests interleave at these steps.                            *)
(*                                                                         *)
(* order.save() of a loaded document sends the paths the handler changed:  *)
(* $set for a path whose assigned value differs from the loaded one, and   *)
(* $push for timeline.push(); the command carries no condition on the      *)
(* document's loaded state.                                                 *)
(***************************************************************************)
EXTENDS Integers, Sequences, FiniteSets, TLC

\* ------------------------------------------------------------------ bounds
MaxOrders == 2
MaxRiders == 2
MaxProcs == 2
\* How many requests (other than the creation of orders and riders) arrive in a run.
MaxOps == 3

Riders == 1..MaxRiders
OrderIds == 1..MaxOrders
Procs == 1..MaxProcs

\* An absent optional field (rider, currentOrder, actualDeliveryTime) or _id.
Unset == 0

Active == {"assigned", "picked_up", "in_transit"}
Statuses == {"pending", "assigned", "picked_up", "in_transit", "delivered", "failed", "cancelled"}
DefaultStatus == "pending"
Reasons == {"customer unreachable"}
Notes == {"note"}
NoReason == ""
DefaultIsActive == TRUE
FailNotes(reason) == "Delivery failed: " \o reason

VARIABLES orders, users, loc, procs, events, now, nops

vars == <<orders, users, loc, procs, events, now, nops>>

\* ------------------------------------------------------------- primitives
\* A handler's locals.  op/pc: which handler and which await it is parked at;
\* o, r, st, reason, notes: the request's parameters; ts: the Date it took;
\* mod: the paths of the loaded order it changed; flag: toggle-online's new value;
\* saved: whether its order.save() has executed;
\* resp: the HTTP status sent (Unset until the handler responds);
\* conc: the requests that were in flight when this one arrived.
IdleProc == [op |-> "idle", pc |-> "idle", o |-> Unset, r |-> Unset, st |-> DefaultStatus,
             reason |-> NoReason, notes |-> NoReason, ts |-> Unset, mod |-> {},
             flag |-> FALSE, saved |-> FALSE, resp |-> Unset, conc |-> {}]

Free(p) == procs[p].pc \in {"idle", "done"}
InFlight == {q \in Procs : ~Free(q)}

\* A request arrives in slot p: the slot's previous (answered) request is forgotten.
Arrive(p, rec) ==
    [q \in Procs |->
        IF q = p THEN [rec EXCEPT !.conc = InFlight \ {p}]
        ELSE IF Free(q) THEN [procs[q] EXCEPT !.conc = @ \ {p}]
        ELSE procs[q]]

\* The handler answers; its locals are dropped, the request and its answer remain.
Respond(p, code) ==
    [procs EXCEPT ![p].pc = "done", ![p].resp = code, ![p].ts = Unset, ![p].mod = {},
                  ![p].flag = FALSE]

Entry(status, timestamp, notes) ==
    [status |-> status, timestamp |-> timestamp, notes |-> notes]

\* The active-order query with 'assigned' missing from its status list.
HasActiveOrderNoAssigned(r) ==
    \E o \in DOMAIN orders :
        orders[o].rider = r /\ orders[o].status \in {"picked_up", "in_transit"}

\* The active-order check read from the rider's currentOrder pointer instead.
HasActiveOrderByPointer(r) == loc[r].currentOrder # Unset

\* Order.findOne({rider, status: {$in: active}})
HasActiveOrder(r) ==
    \E o \in DOMAIN orders : orders[o].rider = r /\ orders[o].status \in Active

\* The update order.save() sends for handler locals q, applied to the stored order.
SaveOf(cur, q) ==
    [cur EXCEPT
       !.rider = IF "rider" \in q.mod THEN q.r ELSE @,
       !.status = IF "status" \in q.mod THEN q.st ELSE @,
       !.failureReason = IF "failureReason" \in q.mod THEN q.reason ELSE @,
       !.actualDeliveryTime = IF "actualDeliveryTime" \in q.mod THEN q.ts ELSE @,
       !.timeline = Append(@, Entry(q.st, q.ts, q.notes))]

\* order.save() of a loaded document: $set of the changed paths, $push of the entry.
OrderSave(o, p) == SaveOf(orders[o], procs[p])

\* The ownership query without its rider filter.
OwnsAnyRider(o, r) == o \in DOMAIN orders

\* Order.findOne({_id: orderId, rider: req.user._id}) finds a document.
Owns(o, r) == o \in DOMAIN orders /\ orders[o].rider = r

Init ==
    /\ orders = << >>
    /\ users = [r \in Riders |-> [exists |-> FALSE, isActive |-> FALSE]]
    /\ loc = [r \in Riders |-> [exists |-> FALSE, isOnline |-> FALSE, currentOrder |-> Unset]]
    /\ procs = [p \in Procs |-> IdleProc]
    /\ events = << >>
    /\ now = 1
    /\ nops = 0

\* new Date(): every reading of the clock is later than the one before it.
Ticks == {now + 1}

\* A request arrives and is served in the first free slot.
FirstFree(p) == Free(p) /\ \A q \in Procs : q < p => ~Free(q)

CanArrive(p) == FirstFree(p) /\ nops < MaxOps

NewRider == CHOOSE r \in Riders : ~users[r].exists /\ \A s \in Riders : s < r => users[s].exists

\* POST /orders (business): a new order, status by schema default, one timeline entry.
CreateOrder ==
    /\ Len(orders) < MaxOrders
    /\ \E t \in Ticks :
         /\ now' = t
         /\ orders' = Append(orders,
                        [rider |-> Unset, status |-> DefaultStatus,
                         timeline |-> <<Entry("pending", t, "Order created")>>,
                         failureReason |-> NoReason, actualDeliveryTime |-> Unset])
    /\ UNCHANGED <<users, loc, procs, events, nops>>

\* POST /riders (admin), up to `await rider.save()`.
CreateRiderUser(p) ==
    /\ FirstFree(p)
    /\ \E r \in Riders : ~users[r].exists
    /\ users' = [users EXCEPT ![NewRider] = [exists |-> TRUE, isActive |-> DefaultIsActive]]
    /\ procs' = Arrive(p, [IdleProc EXCEPT !.op = "createRider", !.pc = "cLoc", !.r = NewRider])
    /\ UNCHANGED <<orders, loc, events, now, nops>>

\* POST /riders, `await new RiderLocation({...isOnline: false}).save()` and the response.
\* RiderLocation.rider is unique: when the rider's own POST /location has already
\* upserted the record, the insert fails and the catch answers 500.
CreateRiderLocation(p) ==
    /\ procs[p].pc = "cLoc"
    /\ LET r == procs[p].r IN
         IF loc[r].exists
         THEN /\ procs' = Respond(p, 500)
              /\ UNCHANGED loc
         ELSE /\ loc' = [loc EXCEPT ![r] = [exists |-> TRUE, isOnline |-> FALSE,
                                            currentOrder |-> Unset]]
              /\ procs' = Respond(p, 201)
    /\ UNCHANGED <<orders, users, events, now, nops>>

\* PATCH /users/:userId/toggle-status (admin).
ToggleStatus(r) ==
    /\ nops < MaxOps
    /\ users[r].exists
    /\ users' = [users EXCEPT ![r].isActive = ~@]
    /\ nops' = nops + 1
    /\ UNCHANGED <<orders, loc, procs, events, now>>

\* ---------------------------------------------- POST /orders/:orderId/assign
\* `Order.findById`: 404 when the order does not exist.
AssignFindOrder(p, o, r) ==
    /\ CanArrive(p)
    /\ nops' = nops + 1
    /\ LET rec == [IdleProc EXCEPT !.op = "assign", !.o = o, !.r = r, !.st = "assigned",
                                   !.notes = "Order assigned to rider"] IN
         IF o \in DOMAIN orders
         THEN procs' = Arrive(p, [rec EXCEPT !.pc = "aUser",
                  !.mod = (IF orders[o].rider # r THEN {"rider"} ELSE {})
                          \cup (IF orders[o].status # "assigned" THEN {"status"} ELSE {})])
         ELSE procs' = Arrive(p, [rec EXCEPT !.pc = "done", !.resp = 404])
    /\ UNCHANGED <<orders, users, loc, events, now>>

\* `User.findOne({_id: riderId, role: 'rider', isActive: true})`: 404 when none.
AssignFindRider(p) ==
    /\ procs[p].pc = "aUser"
    /\ LET r == procs[p].r IN
         IF r \in Riders /\ users[r].exists /\ users[r].isActive
         THEN procs' = [procs EXCEPT ![p].pc = "aActive"]
         ELSE procs' = Respond(p, 404)
    /\ UNCHANGED <<orders, users, loc, events, now, nops>>

\* The active-order check: 400 when the rider has one; otherwise the handler sets
\* rider and status, pushes the timeline entry with new Date() and calls save().
AssignCheckActive(p) ==
    /\ procs[p].pc = "aActive"
    /\ IF HasActiveOrder(procs[p].r)
       THEN /\ procs' = Respond(p, 400)
            /\ UNCHANGED now
       ELSE \E t \in Ticks :
            /\ now' = t
            /\ procs' = [procs EXCEPT ![p].pc = "aSave", ![p].ts = t]
    /\ UNCHANGED <<orders, users, loc, events, nops>>

\* `await order.save()` executes.
AssignSave(p) ==
    /\ procs[p].pc = "aSave"
    /\ orders' = [orders EXCEPT ![procs[p].o] = OrderSave(procs[p].o, p)]
    /\ procs' = [procs EXCEPT ![p].pc = "aLoc", ![p].saved = TRUE]
    /\ UNCHANGED <<users, loc, events, now, nops>>

\* `RiderLocation.findOneAndUpdate({rider}, {currentOrder})` (no upsert), then 200.
AssignSetCurrent(p) ==
    /\ procs[p].pc = "aLoc"
    /\ loc' = [loc EXCEPT ![procs[p].r].currentOrder =
                 IF loc[procs[p].r].exists THEN procs[p].o ELSE @]
    /\ procs' = Respond(p, 200)
    /\ UNCHANGED <<orders, users, events, now, nops>>

\* ------------------------------------------------- PATCH /:orderId/status
\* `Order.findOne({_id, rider: req.user._id})`: 404 when none; otherwise the handler
\* sets status, pushes the entry, stamps actualDeliveryTime on 'delivered', and saves.
\* The status handler's locals once it has changed the loaded order at time t.
TransitionRec(o, r, st, notes, t) ==
    [IdleProc EXCEPT !.op = "transition", !.o = o, !.r = r, !.st = st, !.notes = notes,
                     !.pc = "tSave", !.ts = t,
                     !.mod = (IF orders[o].status # st THEN {"status"} ELSE {})
                             \cup (IF st = "delivered" THEN {"actualDeliveryTime"} ELSE {})]

\* The status handler issues no RiderLocation command.
LocAfterStatus(r) == loc

TransitionFind(p, o, r, st, notes) ==
    /\ CanArrive(p)
    /\ users[r].exists
    /\ nops' = nops + 1
    /\ LET rec == [IdleProc EXCEPT !.op = "transition", !.o = o, !.r = r, !.st = st,
                                   !.notes = notes] IN
         IF Owns(o, r)
         THEN \E t \in Ticks :
              /\ now' = t
              /\ procs' = Arrive(p, TransitionRec(o, r, st, notes, t))
         ELSE /\ procs' = Arrive(p, [rec EXCEPT !.pc = "done", !.resp = 404])
              /\ UNCHANGED now
    /\ UNCHANGED <<orders, users, loc, events>>

\* global.io.to(room).emit(...): the event is published, or the call throws and
\* the handler's catch answers 500.
Emit(p, ev) ==
    \/ /\ events' = Append(events, ev)
       /\ procs' = [Respond(p, 200) EXCEPT ![p].saved = TRUE]
    \/ /\ events' = events
       /\ procs' = [Respond(p, 500) EXCEPT ![p].saved = TRUE]

\* The status event carrying the status stored before the save.
StatusEventStored(o, st, reason) ==
    [kind |-> "status-update", o |-> o, status |-> orders[o].status, reason |-> reason]

StatusEvent(o, st, reason) ==
    [kind |-> "status-update", o |-> o, status |-> st, reason |-> reason]

\* The location-update sent on the channel of no order.
LocationEventNoOrder(o) ==
    [kind |-> "location-update", o |-> Unset, status |-> NoReason, reason |-> NoReason]

LocationEvent(o) ==
    [kind |-> "location-update", o |-> o, status |-> NoReason, reason |-> NoReason]

\* `await order.save()` executes; then the status-update is emitted and 200 sent.
TransitionSave(p) ==
    /\ procs[p].pc = "tSave"
    /\ orders' = [orders EXCEPT ![procs[p].o] = OrderSave(procs[p].o, p)]
    /\ Emit(p, StatusEvent(procs[p].o, procs[p].st, NoReason))
    /\ loc' = LocAfterStatus(procs[p].r)
    /\ UNCHANGED <<users, now, nops>>

\* ---------------------------------------------- POST /orders/:orderId/fail
\* The fail handler's locals once it has changed the loaded order at time t.
FailRec(o, r, reason, t) ==
    [IdleProc EXCEPT !.op = "fail", !.o = o, !.r = r, !.st = "failed", !.reason = reason,
                     !.notes = FailNotes(reason), !.pc = "fSave", !.ts = t,
                     !.mod = (IF orders[o].status # "failed" THEN {"status"} ELSE {})
                             \cup (IF orders[o].failureReason # reason
                                   THEN {"failureReason"} ELSE {})]

\* RiderLocation.findOneAndUpdate({rider}, {$unset: {currentOrder: 1}})
LocAfterFail(r) == [loc EXCEPT ![r].currentOrder = Unset]

FailFind(p, o, r, reason) ==
    /\ CanArrive(p)
    /\ users[r].exists
    /\ nops' = nops + 1
    /\ LET rec == [IdleProc EXCEPT !.op = "fail", !.o = o, !.r = r, !.st = "failed",
                                   !.reason = reason, !.notes = FailNotes(reason)] IN
         IF Owns(o, r)
         THEN \E t \in Ticks :
              /\ now' = t
              /\ procs' = Arrive(p, FailRec(o, r, reason, t))
         ELSE /\ procs' = Arrive(p, [rec EXCEPT !.pc = "done", !.resp = 404])
              /\ UNCHANGED now
    /\ UNCHANGED <<orders, users, loc, events>>

FailSave(p) ==
    /\ procs[p].pc = "fSave"
    /\ orders' = [orders EXCEPT ![procs[p].o] = OrderSave(procs[p].o, p)]
    /\ procs' = [procs EXCEPT ![p].pc = "fLoc", ![p].saved = TRUE]
    /\ UNCHANGED <<users, loc, events, now, nops>>

\* `RiderLocation.findOneAndUpdate({rider}, {$unset: {currentOrder: 1}})`, then the
\* status-update is emitted and 200 sent.
FailClearCurrent(p) ==
    /\ procs[p].pc = "fLoc"
    /\ loc' = LocAfterFail(procs[p].r)
    /\ Emit(p, StatusEvent(procs[p].o, "failed", procs[p].reason))
    /\ UNCHANGED <<orders, users, now, nops>>

\* ------------------------------------------------------- POST /location
\* findOneAndUpdate with upsert; isOnline defaults to true when not supplied.
UpdateLocation(p, r, given, isOnline) ==
    /\ CanArrive(p)
    /\ users[r].exists
    /\ nops' = nops + 1
    /\ loc' = [loc EXCEPT ![r].exists = TRUE,
                          ![r].isOnline = IF given THEN isOnline ELSE TRUE]
    /\ LET rec == [IdleProc EXCEPT !.op = "updateLocation", !.r = r,
                                   !.o = loc[r].currentOrder] IN
         \/ /\ loc[r].currentOrder # Unset
            /\ events' = Append(events, LocationEvent(loc[r].currentOrder))
            /\ procs' = Arrive(p, [rec EXCEPT !.pc = "done", !.resp = 200])
         \/ /\ loc[r].currentOrder # Unset
            /\ events' = events
            /\ procs' = Arrive(p, [rec EXCEPT !.pc = "done", !.resp = 500])
         \/ /\ loc[r].currentOrder = Unset
            /\ events' = events
            /\ procs' = Arrive(p, [rec EXCEPT !.pc = "done", !.resp = 200])
    /\ UNCHANGED <<orders, users, now>>

\* ---------------------------------------------------- POST /toggle-online
ToggleFind(p, r) ==
    /\ CanArrive(p)
    /\ users[r].exists
    /\ nops' = nops + 1
    /\ LET rec == [IdleProc EXCEPT !.op = "toggleOnline", !.r = r] IN
         IF loc[r].exists
         THEN procs' = Arrive(p, [rec EXCEPT !.pc = "gSave", !.flag = ~loc[r].isOnline])
         ELSE procs' = Arrive(p, [rec EXCEPT !.pc = "done", !.resp = 404])
    /\ UNCHANGED <<orders, users, loc, events, now>>

ToggleSave(p) ==
    /\ procs[p].pc = "gSave"
    /\ loc' = [loc EXCEPT ![procs[p].r].isOnline = procs[p].flag]
    /\ procs' = Respond(p, 200)
    /\ UNCHANGED <<orders, users, events, now, nops>>

Next ==
    \/ CreateOrder
    \/ \E p \in Procs : CreateRiderUser(p)
    \/ \E p \in Procs : CreateRiderLocation(p)
    \/ \E r \in Riders : ToggleStatus(r)
    \/ \E p \in Procs, o \in OrderIds, r \in Riders : AssignFindOrder(p, o, r)
    \/ \E p \in Procs : AssignFindRider(p)
    \/ \E p \in Procs : AssignCheckActive(p)
    \/ \E p \in Procs : AssignSave(p)
    \/ \E p \in Procs : AssignSetCurrent(p)
    \/ \E p \in Procs, o \in OrderIds, r \in Riders, st \in Statuses, n \in Notes :
          TransitionFind(p, o, r, st, n)
    \/ \E p \in Procs : TransitionSave(p)
    \/ \E p \in Procs, o \in OrderIds, r \in Riders, reason \in Reasons :
          FailFind(p, o, r, reason)
    \/ \E p \in Procs : FailSave(p)
    \/ \E p \in Procs : FailClearCurrent(p)
    \/ \E p \in Procs, r \in Riders, given \in BOOLEAN, b \in BOOLEAN :
          UpdateLocation(p, r, given, b)
    \/ \E p \in Procs, r \in Riders : ToggleFind(p, r)
    \/ \E p \in Procs : ToggleSave(p)

Spec == Init /\ [][Next]_vars

\* ------------------------------------------------------------------ claims
Answered(p, op) == procs[p].op = op /\ procs[p].pc = "done"

\* Two answered requests whose handlers were in flight at the same time.
Concurrent(p, q) == p # q /\ (q \in procs[p].conc \/ p \in procs[q].conc)

Quiescent == InFlight = {}

\* The statuses the lifecycle calls terminal.
Terminal == {"delivered", "failed"}

ActiveOrdersOf(r) == {o \in DOMAIN orders : orders[o].rider = r /\ orders[o].status \in Active}

StatusesOf(o) == [i \in 1..Len(orders[o].timeline) |-> orders[o].timeline[i].status]

\* C1: in every reachable state, every rider has at most one order with
\* rider = R and status in {assigned, picked_up, in_transit}.
C1_AtMostOneActiveOrder ==
    \A r \in Riders : Cardinality(ActiveOrdersOf(r)) <= 1

\* C2: two assign requests for the same rider and two distinct pending orders that
\* ran concurrently (each order's history is exactly "created, then assigned at
\* most once") never both succeed.
C2_ConcurrentAssignSameRider ==
    \A p, q \in Procs :
        ( /\ Answered(p, "assign") /\ Answered(q, "assign") /\ Concurrent(p, q)
          /\ procs[p].r = procs[q].r /\ procs[p].o # procs[q].o
          /\ procs[p].o \in DOMAIN orders /\ procs[q].o \in DOMAIN orders
          /\ \A o \in {procs[p].o, procs[q].o} :
                StatusesOf(o) \in {<<"pending">>, <<"pending", "assigned">>} )
        => ~(procs[p].resp = 200 /\ procs[q].resp = 200)

\* C3: two assign requests for the same order and two different riders that ran
\* concurrently never both report success (the loser must get Conflict instead of
\* overwriting order.rider).
C3_ConcurrentAssignSameOrder ==
    \A p, q \in Procs :
        ( /\ Answered(p, "assign") /\ Answered(q, "assign") /\ Concurrent(p, q)
          /\ procs[p].o = procs[q].o /\ procs[p].r # procs[q].r )
        => ~(procs[p].resp = 200 /\ procs[q].resp = 200)

\* C4: with no request in flight, a rider's currentOrder is set only if the order
\* it references has status in {assigned, picked_up, in_transit}; it is unset
\* when that order is delivered or failed.
C4_CurrentOrderIffActive ==
    Quiescent =>
      \A r \in Riders : (loc[r].exists /\ loc[r].currentOrder # Unset) =>
          /\ loc[r].currentOrder \in DOMAIN orders
          /\ orders[loc[r].currentOrder].status \in Active

\* C5: the step in which transition(O, R, 'delivered') answers success leaves
\* RiderLocation(R).currentOrder unset and order O with actualDeliveryTime set.
C5_DeliveredClearsCurrentOrder ==
    [][\A p \in Procs :
          ( /\ procs'[p] # procs[p]
            /\ procs'[p].op = "transition" /\ procs'[p].pc = "done"
            /\ procs'[p].st = "delivered" /\ procs'[p].resp = 200 )
          => /\ loc'[procs'[p].r].currentOrder = Unset
             /\ orders'[procs'[p].o].actualDeliveryTime # Unset]_vars

LastEntry(o) == orders[o].timeline[Len(orders[o].timeline)]

\* C6: after fail(O1, R) (or a terminal transition of O1 by R) and a concurrent
\* assign(O2, R) have both answered success, the assignment being the later of
\* the two (its timeline entry is younger than O1's last one) and O2 still
\* assigned to R, RiderLocation(R).currentOrder is O2.
C6_ClearNeverOverwritesAssign ==
    \A p, q \in Procs :
        ( /\ Answered(q, "assign") /\ procs[q].resp = 200
          /\ \/ Answered(p, "fail")
             \/ Answered(p, "transition") /\ procs[p].st \in Terminal
          /\ procs[p].resp = 200 /\ Concurrent(p, q)
          /\ procs[p].r = procs[q].r /\ procs[p].o # procs[q].o
          /\ loc[procs[q].r].exists
          /\ orders[procs[q].o].rider = procs[q].r
          /\ StatusesOf(procs[q].o) = <<"pending", "assigned">>
          /\ LastEntry(procs[p].o).status \in Terminal
          /\ LastEntry(procs[q].o).timestamp > LastEntry(procs[p].o).timestamp )
        => loc[procs[q].r].currentOrder = procs[q].o

\* C7: once an order's status is delivered or failed, no step changes it.
C7_TerminalIsFinal ==
    [][\A o \in DOMAIN orders :
          orders[o].status \in Terminal => orders'[o].status = orders[o].status]_vars

\* C8: in every reachable state the last timeline entry of every order carries
\* the order's status.
C8_LastEntryIsStatus ==
    \A o \in DOMAIN orders :
        LastEntry(o).status = orders[o].status

AppendOnly(old, new) ==
    \/ new = old
    \/ Len(new) = Len(old) + 1 /\ SubSeq(new, 1, Len(old)) = old

Mutating == {"assign", "transition", "fail"}

\* C9: every step leaves each stored timeline as it was or with exactly one entry
\* added at its end; an answered assign, transition or fail has added its entry
\* if and only if it answered success.
C9_TimelineAppendOnly ==
    /\ [][\A o \in DOMAIN orders :
            AppendOnly(orders[o].timeline, orders'[o].timeline)]_vars
    /\ [](\A p \in Procs :
            (procs[p].pc = "done" /\ procs[p].op \in Mutating)
            => (procs[p].saved <=> procs[p].resp = 200))

\* C10: in every reachable state the timestamps of every timeline are
\* non-decreasing in list order.
C10_TimestampsMonotone ==
    \A o \in DOMAIN orders :
        \A i, j \in 1..Len(orders[o].timeline) :
            i < j => orders[o].timeline[i].timestamp <= orders[o].timeline[j].timestamp

\* What fail(o, r, reason) and transition(o, r, st, notes) leave behind when each is
\* served alone from the current state.
FailOutcome(o, r, reason) ==
    [order |-> SaveOf(orders[o], FailRec(o, r, reason, now + 1)),
     currentOrder |-> LocAfterFail(r)[r].currentOrder]

TransitionOutcome(o, r, st, notes) ==
    [order |-> SaveOf(orders[o], TransitionRec(o, r, st, notes, now + 1)),
     currentOrder |-> LocAfterStatus(r)[r].currentOrder]

\* C11: from every state with no request in flight, for every order O owned by
\* rider R, fail(O, R, reason) leaves the same order (status, timeline entry and
\* notes) and the same RiderLocation(R).currentOrder as
\* transition(O, R, 'failed', "Delivery failed: " + reason), except that
\* failureReason is set to reason.
C11_FailIsTransitionFailed ==
    Quiescent =>
      \A o \in DOMAIN orders, r \in Riders, reason \in Reasons :
          Owns(o, r) =>
            LET f == FailOutcome(o, r, reason)
                t == TransitionOutcome(o, r, "failed", FailNotes(reason))
            IN /\ f.order = [t.order EXCEPT !.failureReason = reason]
               /\ f.currentOrder = t.currentOrder

\* C12: in every state with no request in flight, an order has a rider if and only
\* if its status is assigned, picked_up, in_transit, delivered or failed.
C12_RiderIffBound ==
    Quiescent =>
      \A o \in DOMAIN orders :
          orders[o].rider # Unset <=> orders[o].status \in Active \cup Terminal

\* A request of kind op arrives in slot p in this step.
Arrives(p, op) ==
    /\ FirstFree(p) /\ nops' = nops + 1 /\ users' = users
    /\ procs'[p].op = op

\* In-flight handler p of kind op, parked at pc, takes its step.
Steps(p, op, pc) ==
    procs[p].op = op /\ procs[p].pc = pc /\ procs'[p] # procs[p]

Rejected(p, code) == procs'[p].pc = "done" /\ procs'[p].resp = code

StoreUntouched == orders' = orders /\ loc' = loc

ActiveRider(r) == users[r].exists /\ users[r].isActive

\* C13: assign answers NotFound (404) when the order does not exist or the rider
\* is not an existing active rider, and Conflict (400, 'Rider already has an
\* active order') when the rider has an order in {assigned, picked_up,
\* in_transit}; the step that rejects changes no Order and no RiderLocation, and
\* a rejected assign has saved nothing.
C13_AssignRejections ==
    /\ [][\A p \in Procs :
            /\ (Arrives(p, "assign") /\ procs'[p].o \notin DOMAIN orders)
                 => (Rejected(p, 404) /\ StoreUntouched)
            /\ (Steps(p, "assign", "aUser") /\ ~ActiveRider(procs[p].r))
                 => (Rejected(p, 404) /\ StoreUntouched)
            /\ (Steps(p, "assign", "aActive") /\ ActiveOrdersOf(procs[p].r) # {})
                 => (Rejected(p, 400) /\ StoreUntouched)]_vars
    /\ [](\A p \in Procs :
            (Answered(p, "assign") /\ procs[p].resp \in {400, 404}) => ~procs[p].saved)

\* C13 witness: an assign was answered Conflict and one was answered NotFound for
\* an inactive rider.
C13_Witness ==
    /\ \E p \in Procs : Answered(p, "assign") /\ procs[p].resp = 400
                           /\ ActiveOrdersOf(procs[p].r) # {}
    /\ \E p \in Procs : Answered(p, "assign") /\ procs[p].resp = 404
                           /\ procs[p].o \in DOMAIN orders

\* C14: at the moment assign(O, R) answers success, O.rider = R, O.status =
\* 'assigned', O.timeline holds an 'assigned' entry, and R's RiderLocation has
\* currentOrder = O.
C14_AssignEffects ==
    [][\A p \in Procs :
          (Steps(p, "assign", "aLoc") /\ procs'[p].resp = 200) =>
              LET o == procs[p].o
                  r == procs[p].r
              IN  /\ orders'[o].rider = r
                  /\ orders'[o].status = "assigned"
                  /\ \E i \in DOMAIN orders'[o].timeline :
                         orders'[o].timeline[i].status = "assigned"
                  /\ loc'[r].currentOrder = o]_vars

\* C15: a transition or fail request for an order that does not exist, or whose
\* rider is not the calling rider, is answered NotFound (404) in the step that
\* looks the order up; that step changes no Order and no RiderLocation and
\* publishes no event, and a request answered NotFound has saved nothing.
C15_NotOwnerNotFound ==
    /\ [][\A p \in Procs : \A op \in {"transition", "fail"} :
            (/\ Arrives(p, op)
             /\ \/ procs'[p].o \notin DOMAIN orders
                \/ orders[procs'[p].o].rider # procs'[p].r)
            => (Rejected(p, 404) /\ StoreUntouched /\ events' = events)]_vars
    /\ [](\A p \in Procs : \A op \in {"transition", "fail"} :
            (Answered(p, op) /\ procs[p].resp = 404) => ~procs[p].saved)

\* C15 witness: a transition and a fail were each answered NotFound for an order
\* that exists and belongs to another rider or to none.
C15_Witness ==
    \A op \in {"transition", "fail"} :
        \E p \in Procs :
            /\ Answered(p, op) /\ procs[p].resp = 404
            /\ procs[p].o \in DOMAIN orders
            /\ orders[procs[p].o].rider # procs[p].r

\* Handler p reaches its emit in this step: the save of a transition, the
\* currentOrder update of a fail, or an updateLocation whose record holds a
\* current order.
ReachesEmit(p) ==
    \/ Steps(p, "transition", "tSave")
    \/ Steps(p, "fail", "fLoc")
    \/ Arrives(p, "updateLocation") /\ loc[procs'[p].r].currentOrder # Unset

\* C16: whenever transition, fail or updateLocation reaches its publication, the
\* operation answers success (200) whether or not the publication fails: a
\* publication failure is never surfaced as an error of the operation.
C16_PublishFailureSwallowed ==
    [][\A p \in Procs : ReachesEmit(p) => procs'[p].resp = 200]_vars

\* C17: an assign to an existing active rider none of whose orders is assigned,
\* picked_up or in_transit passes the active-order check, whatever delivered or
\* failed orders the rider has and whatever its currentOrder still points at, and
\* an assign that passed the check is answered success (200).
C17_TerminatedNeverBlocks ==
    /\ [][\A p \in Procs :
            (Steps(p, "assign", "aActive") /\ ActiveOrdersOf(procs[p].r) = {})
            => procs'[p].pc = "aSave"]_vars
    /\ [](\A p \in Procs : (Answered(p, "assign") /\ procs[p].saved) => procs[p].resp = 200)

\* C17 witness: rider R had order O1 delivered or failed, and an assign of
\* another order to R, saved after that, was answered success.
C17_Witness ==
    \E p \in Procs : \E o1 \in DOMAIN orders :
        /\ Answered(p, "assign") /\ procs[p].resp = 200
        /\ o1 # procs[p].o
        /\ orders[o1].rider = procs[p].r
        /\ orders[o1].status \in Terminal
        /\ orders[procs[p].o].rider = procs[p].r
        /\ LastEntry(o1).timestamp < LastEntry(procs[p].o).timestamp

\* C18: updateLocation for rider R leaves R with a RiderLocation record and
\* changes no other rider's record and no order; it never changes currentOrder,
\* so a record it creates has currentOrder unset and publishes nothing; when the
\* record exists, the only event it may publish is a location-update on the
\* channel of the record's currentOrder, which it publishes whenever that is set
\* and the publication does not fail.
C18_UpdateLocationUpsert ==
    [][\A p \in Procs :
          Arrives(p, "updateLocation") =>
              LET r  == procs'[p].r
                  co == loc[r].currentOrder
                  ev == [kind |-> "location-update", o |-> co,
                         status |-> NoReason, reason |-> NoReason]
              IN  /\ loc'[r].exists
                  /\ loc'[r].currentOrder = co
                  /\ \A s \in Riders \ {r} : loc'[s] = loc[s]
                  /\ orders' = orders
                  /\ ~loc[r].exists => (co = Unset /\ events' = events)
                  /\ events' # events => (co # Unset /\ events' = Append(events, ev))
                  /\ (co # Unset /\ procs'[p].resp = 200) => events' = Append(events, ev)]_vars

\* C18 witness: an updateLocation published a location-update for the current
\* order of rider R, whose record an earlier updateLocation had created (the
\* rider's creation found the record already there).
C18_Witness ==
    \E p, q \in Procs :
        /\ Answered(p, "updateLocation") /\ procs[p].resp = 200
        /\ procs[p].o # Unset
        /\ events # <<>>
        /\ events[Len(events)] = [kind |-> "location-update", o |-> procs[p].o,
                                   status |-> NoReason, reason |-> NoReason]
        /\ Answered(q, "createRider") /\ procs[q].resp = 500
        /\ procs[q].r = procs[p].r

\* Every request served so far, rider and order creation apart, is a
\* toggleOnline whose record is still held: no updateLocation has run.
OnlyToggles == nops = Cardinality({q \in Procs : procs[q].op = "toggleOnline"})

\* C19: with no updateLocation in between, every toggleOnline that answers
\* success flips the stored isOnline flag of its rider: the step that saves it
\* leaves the flag the negation of what was stored just before, so k successes
\* leave the initial flag for even k and its negation for odd k.
C19_ToggleFlips ==
    [][\A p \in Procs :
          (OnlyToggles /\ Steps(p, "toggleOnline", "gSave") /\ procs'[p].resp = 200)
          => loc'[procs[p].r].isOnline # loc[procs[p].r].isOnline]_vars

\* The edges of the order lifecycle.
Edges ==
    {<<"pending", "assigned">>, <<"assigned", "picked_up">>,
     <<"picked_up", "in_transit">>, <<"in_transit", "delivered">>}
    \cup {<<a, "failed">> : a \in Active}

\* C20: every change of an order's stored status follows an edge of the
\* lifecycle (pending to assigned, assigned to picked_up, picked_up to
\* in_transit, in_transit to delivered, and to failed only from an active
\* status), and pending to assigned is made only by assign.
C20_LifecycleEdges ==
    [][\A o \in DOMAIN orders :
          orders'[o].status # orders[o].status =>
              /\ <<orders[o].status, orders'[o].status>> \in Edges
              /\ orders[o].status = "pending" =>
                     \E p \in Procs : Steps(p, "assign", "aSave") /\ procs[p].o = o]_vars

\* C21: in every state with no request in flight, whenever the RiderLocation of
\* rider R has currentOrder = O, order O has rider = R; stated for the requests
\* that ran one after the other, where it already fails.
C21_CurrentOrderIsOwn ==
    (Quiescent /\ \A p, q \in Procs : ~Concurrent(p, q)) =>
        \A r \in Riders :
            loc[r].currentOrder # Unset => orders[loc[r].currentOrder].rider = r

\* The status event the handler p is expected to publish for its order.
ExpectedEvent(p) ==
    [kind |-> "status-update", o |-> procs[p].o, status |-> procs[p].st,
     reason |-> procs[p].reason]

HasEntry(tl, s) == \E i \in DOMAIN tl : tl[i].status = s

\* C22: the step in which a transition or fail answers success publishes exactly
\* one event, the status event of its order carrying the new status, and the
\* order stored by then holds a timeline entry of that status; every status
\* event ever published for (O, s) finds O stored with a timeline entry of
\* status s.
C22_OneStatusEventAfterSave ==
    /\ [][\A p \in Procs :
            ((Steps(p, "transition", "tSave") \/ Steps(p, "fail", "fLoc"))
             /\ procs'[p].resp = 200)
            => /\ events' = Append(events, ExpectedEvent(p))
               /\ HasEntry(orders'[procs[p].o].timeline, procs[p].st)]_vars
    /\ [](\A i \in DOMAIN events :
            events[i].kind = "status-update"
            => HasEntry(orders[events[i].o].timeline, events[i].status))

\* C22 witness: a transition and a fail were both answered success and the last
\* published event is the status event of one of them.
C22_Witness ==
    \E p, q \in Procs :
        /\ Answered(p, "transition") /\ procs[p].resp = 200
        /\ Answered(q, "fail") /\ procs[q].resp = 200
        /\ Len(events) >= 2
        /\ events[Len(events)] \in {ExpectedEvent(p), ExpectedEvent(q)}
====
